---- MODULE Spec2Model ----
(***************************************************************************)
(* A CMIPExperiment (src/xoce/api/experiment.py) as a state machine: the   *)
(* three stores arrays / mesh / coords, the dims registry, the DRS index,  *)
(* and the item lookup, ingestion, lazy loading, renaming and derived      *)
(* variable calculation that act on them.                                  *)
(*                                                                         *)
(* A labelled array (xr.DataArray) is a record                             *)
(*    id   : object identity (see NewId, TmpId, UserId)                    *)
(*    data : a symbolic term naming how the values were obtained           *)
(*    dims : the set of its dimension names (each dimension carries its    *)
(*           index coordinate, so arr.coords = arr.dims)                   *)
(*    grid : which values its vertical (lev / depth) coordinate has,       *)
(*           "" if it has no vertical dimension                            *)
(*    type : the Python type of the value                                  *)
(***************************************************************************)
EXTENDS Integers, Sequences, FiniteSets, TLC

VARIABLES arrays, mesh, coords, dims, drs, unused_dims, last

vars == <<arrays, mesh, coords, dims, drs, unused_dims, last>>

\* ---------------------------------------------------------------- values

Term(op, name, args) == [op |-> op, name |-> name, args |-> args]

NoId == [nm |-> "", ser |-> 0]
\* identity of the object stored in arrays under key n after ser rewrites
NewId(n, ser) == [nm |-> n, ser |-> ser]
\* identity of an object the caller created
UserId == [nm |-> "user", ser |-> 0]
\* identity of an object handed to the caller that no store holds
TmpId(ser) == [nm |-> "tmp", ser |-> ser]

Arr(id, data, ds, grid) ==
  [id |-> id, data |-> data, dims |-> ds, grid |-> grid, type |-> "DataArray"]

NoArr == [id |-> NoId, data |-> Term("none", "", <<>>), dims |-> {}, grid |-> "",
          type |-> "NoneType"]

EmptyMap == [n \in {} |-> NoArr]

Put(f, k, v) == [x \in DOMAIN f \cup {k} |-> IF x = k THEN v ELSE f[x]]

\* ------------------------------------------------- static configuration

\* _VARS_NAME['CMIPExperiment']: raw source name -> canonical name
VARS_NAME == [n \in {"lev", "thkcello"} |-> IF n = "lev" THEN "depth" ELSE "e3t"]

\* _DIM_COORDINATES.get(d, d)
DIM_COORDINATES(d) == d

\* CalcManager's registered formulas: name -> prerequisite names, in the order
\* the formula reads them
CalcPrereqs ==
  [n \in {"rho", "bigthetao"} |->
     IF n = "rho" THEN <<"depth", "so", "bigthetao">> ELSE <<"so", "thetao">>]

\* ------------------------------------------------------ the files on disk

\* load_cmip6_output(path)['variable_id']
load_cmip6_output == {"thetao", "so", "wo"}

\* the vertical levels of the file of variable v
FileGrid(v) == IF v = "wo" THEN "W" ELSE "T"

\* xr.open_dataset(file of v)[v]
FileVar(v) ==
  Arr(NoId, Term("file", v, <<>>),
      IF v = "thetao" THEN {"member", "lev", "j"}
      ELSE IF v = "so" THEN {"lev", "j"} ELSE {"lev"},
      FileGrid(v))

\* xr.open_dataset(file of v).dims, with their sizes
FileDims(v) ==
  [d \in FileVar(v).dims |->
     IF d = "lev" THEN (IF FileGrid(v) = "T" THEN 2 ELSE 3) ELSE 1]

\* xr.open_dataset(file of v).coords, in the file's order
FileCoordNames(v) == IF v = "wo" THEN <<"lev">> ELSE <<"lev", "latitude">>

\* xr.open_dataset(file of v).coords[c]; the files share their horizontal grid
FileCoord(v, c) ==
  IF c = "lev" THEN Arr(NoId, Term("filecoord", "lev", <<Term("file", v, <<>>)>>),
                        {"lev"}, FileGrid(v))
  ELSE Arr(NoId, Term("filecoord", c, <<>>), {"j"}, "")

\* xr.open_dataset(fmesh)
MeshFile ==
  [n \in {"thkcello", "areacello"} |->
     Arr(NoId, Term("mesh", n, <<>>),
         IF n = "thkcello" THEN {"member", "j"} ELSE {"j"}, "")]

\* -------------------------------------------------------- caller's inputs

UserArray == Arr(UserId, Term("user", "a", <<>>), {"lev"}, "W")
UserNdarray == [UserArray EXCEPT !.type = "ndarray"]
UserCoord == Arr(UserId, Term("user", "c", <<>>), {"lev"}, "W")

GetNames == {"thetao", "so", "wo", "thkcello", "areacello", "depth",
             "bigthetao", "rho", "uo"}
SetNames == {"so", "thkcello"}
LoadNames == load_cmip6_output \cup {"uo"}
RenameArgs == {<<"j", "y">>, <<"depth", "z">>}
ReplaceDicts == {<<>>, [n \in {"thkcello"} |-> "e3t_0"]}

\* ------------------------------------------------------ operation results

Ok(S, val) == [st |-> S, status |-> "ok", err |-> "", val |-> val, msg |-> {}]
Fail(S, status, err, msg) ==
  [st |-> S, status |-> status, err |-> err, val |-> NoArr, msg |-> msg]

Event(S, ev, var) == [S EXCEPT !.trace = Append(@, <<ev, var>>)]

\* ----------------------------------------------------- Experiment (state)

\* The fields of one Experiment object, as the operations below thread them:
\* fresh is the serial a new caller-held object takes in this call, trace the
\* loads and calculations the call has made so far.
State(fresh) ==
  [arrays |-> arrays, mesh |-> mesh, coords |-> coords, dims |-> dims,
   drs |-> drs, unused |-> unused_dims, fresh |-> fresh, trace |-> <<>>]

Canon(n) == IF n \in DOMAIN VARS_NAME THEN VARS_NAME[n] ELSE n

\* CMIPExperiment.variables
variables(S) ==
  DOMAIN S.arrays \cup DOMAIN S.mesh \cup DOMAIN S.coords \cup S.drs

\* the three source-of-truth stores that hold name n
StoresOf(S, n) ==
  {s \in {"arrays", "mesh", "coords"} :
     \/ s = "arrays" /\ n \in DOMAIN S.arrays
     \/ s = "mesh" /\ n \in DOMAIN S.mesh
     \/ s = "coords" /\ n \in DOMAIN S.coords}

\* arr.rename(rename_dict) with rename_dict built from the registry
rename_by_registry(arr) == [arr EXCEPT !.dims = {Canon(d) : d \in arr.dims}]

\* the insert overwrites an existing entry (checked against C10)
add_variable_overwrite(S, var, arr, rename_dims) ==
  LET newvar == Canon(var)
      arr1 == IF rename_dims
              THEN [rename_by_registry(arr) EXCEPT !.id = NewId(newvar, 0)]
              ELSE arr
  IN [st |-> [S EXCEPT !.arrays = Put(@, newvar, arr1)],
      newvar |-> newvar, arr |-> arr1]

add_variable(S, var, arr, rename_dims) ==
  LET newvar == Canon(var)
      arr1 == IF rename_dims
              THEN [rename_by_registry(arr) EXCEPT !.id = NewId(newvar, 0)]
              ELSE arr
  IN IF newvar \notin DOMAIN S.arrays
     THEN [st |-> [S EXCEPT !.arrays = Put(@, newvar, arr1)],
           newvar |-> newvar, arr |-> arr1]
     ELSE [st |-> S, newvar |-> newvar,
           arr |-> IF rename_dims THEN [arr1 EXCEPT !.id = TmpId(S.fresh)] ELSE arr]

add_coordinate(S, var, arr, rename_dims) ==
  LET newvar == Canon(var)
      arr1 == IF rename_dims THEN [rename_by_registry(arr) EXCEPT !.id = NoId]
              ELSE arr
  IN IF newvar \notin DOMAIN S.arrays
     THEN [st |-> [S EXCEPT !.coords = Put(@, newvar, arr1)],
           newvar |-> newvar, arr |-> arr1]
     ELSE [st |-> S, newvar |-> newvar, arr |-> arr1]

\* load_variable's loop over ds.coords, from the i-th coordinate on
RECURSIVE load_variable_coords(_, _, _)
load_variable_coords(S, var, i) ==
  IF i > Len(FileCoordNames(var)) THEN S
  ELSE LET c == FileCoordNames(var)[i]
           S1 == IF c \notin DOMAIN S.coords
                 THEN add_coordinate(S, c, FileCoord(var, c), TRUE).st
                 ELSE S
       IN load_variable_coords(S1, var, i + 1)

load_variable(S, var) ==
  LET S0 == [S EXCEPT !.drs = IF @ = {} THEN load_cmip6_output ELSE @]
  IN IF var \notin S0.drs
     THEN Fail(S0, "Exception", "no_file", {})
     ELSE LET S1 == [Event(S0, "load", var) EXCEPT
                       !.dims = [d \in DOMAIN S0.dims \cup DOMAIN FileDims(var) |->
                                   IF d \in DOMAIN S0.dims THEN S0.dims[d]
                                   ELSE FileDims(var)[d]]]
              S2 == load_variable_coords(S1, var, 1)
              S3 == add_variable(S2, var, FileVar(var), TRUE).st
          IN Ok(S3, [FileVar(var) EXCEPT !.id = TmpId(S.fresh)])

\* variable.isel({dim: 0}) for the unused dimensions from the i-th on
RECURSIVE isel_unused(_, _, _)
isel_unused(unused, i, variable) ==
  IF i > Len(unused) THEN variable
  ELSE LET dim == unused[i]
           v1 == IF dim \in variable.dims
                 THEN [variable EXCEPT !.id = NoId, !.dims = @ \ {dim},
                                       !.data = Term("isel", dim, <<@>>)]
                 ELSE variable
       IN isel_unused(unused, i + 1, v1)

\* arr[d].data: the values of arr's coordinate along d. Only the vertical
\* coordinate differs between the modelled sources.
CoordVals(arr, d) == IF d \in {"lev", "depth", "z"} THEN arr.grid ELSE "index"

\* the interpolation loop of __getitem__ over the dimensions ds
RECURSIVE interp(_, _, _)
interp(S, array, ds) ==
  IF ds = {} THEN array
  ELSE LET d == CHOOSE x \in ds : TRUE
           c == DIM_COORDINATES(d)
           a1 == IF /\ c \in DOMAIN S.coords
                    /\ CoordVals(array, d) # CoordVals(S.coords[c], d)
                 THEN [array EXCEPT !.id = TmpId(S.fresh),
                                    !.data = Term("interp", d, <<@>>),
                                    !.dims = (@ \ {d}) \cup S.coords[c].dims,
                                    !.grid = S.coords[c].grid]
                 ELSE array
       IN interp(S, a1, ds \ {d})

\* xarray arithmetic on several arrays: dimensions are united, and index
\* coordinates that disagree are joined
Join(gs) ==
  IF gs = {} THEN ""
  ELSE IF Cardinality(gs) = 1 THEN CHOOSE g \in gs : TRUE ELSE "mixed"

gsw(op, args) ==
  Arr(NoId, Term(op, "", [i \in 1..Len(args) |-> args[i].data]),
      UNION {args[i].dims : i \in 1..Len(args)},
      Join({args[i].grid : i \in 1..Len(args)} \ {""}))

RECURSIVE is_calculable(_, _)
is_calculable(S, var) ==
  /\ var \in DOMAIN CalcPrereqs
  /\ \A i \in 1..Len(CalcPrereqs[var]) :
        \/ CalcPrereqs[var][i] \in variables(S)
        \/ is_calculable(S, CalcPrereqs[var][i])

RECURSIVE getitem(_, _), calculate(_, _), density(_), bigthetao(_)

setitem(S, var, values) ==
  IF values.type = "DataArray"
  THEN Ok(add_variable(S, var, values, TRUE).st, NoArr)
  ELSE Fail(S, "TypeError", "", {})

\* the density is computed from the potential temperature (checked against C6)
density_pt(S) ==
  LET d == getitem(S, "depth")
  IN IF d.status # "ok" THEN d
     ELSE LET so == getitem(d.st, "so")
          IN IF so.status # "ok" THEN so
             ELSE LET pt == getitem(so.st, "thetao")
                  IN IF pt.status # "ok" THEN pt
                     ELSE setitem(pt.st, "rho",
                                  gsw("rho", <<so.val, pt.val, d.val>>))

\* thermo.density(ds)
density(S) ==
  LET d == getitem(S, "depth")
  IN IF d.status # "ok" THEN d
     ELSE LET so == getitem(d.st, "so")
          IN IF so.status # "ok" THEN so
             ELSE LET bt == getitem(so.st, "bigthetao")
                  IN IF bt.status # "ok" THEN bt
                     ELSE setitem(bt.st, "rho",
                                  gsw("rho", <<so.val, bt.val, d.val>>))

\* thermo.bigthetao(ds)
bigthetao(S) ==
  LET so == getitem(S, "so")
  IN IF so.status # "ok" THEN so
     ELSE LET pt == getitem(so.st, "thetao")
          IN IF pt.status # "ok" THEN pt
             ELSE setitem(pt.st, "bigthetao",
                          gsw("CT_from_pt", <<so.val, pt.val>>))

\* CalcManager.calculate: run the registered formula against the Experiment
\* and hand back what it stored
calculate(S, var) ==
  LET S0 == Event(S, "calc", var)
      f == IF var = "rho" THEN density(S0) ELSE bigthetao(S0)
  IN IF f.status # "ok" THEN f
     ELSE IF var \in DOMAIN f.st.arrays THEN Ok(f.st, f.st.arrays[var])
     ELSE Fail(f.st, "KeyError", "lookup", {})

\* the lookup finds the stores in another order (checked against C9)
resolve_coords_first(S, var) ==
  IF var \in DOMAIN S.coords THEN Ok(Event(S, "coords", var), S.coords[var])
  ELSE IF var \in DOMAIN S.arrays THEN Ok(Event(S, "arrays", var), S.arrays[var])
  ELSE IF var \in DOMAIN S.mesh THEN Ok(Event(S, "mesh", var), S.mesh[var])
  ELSE LET lres == load_variable(S, var)
       IN IF lres.status # "ok" THEN lres
          ELSE IF var \in DOMAIN lres.st.arrays
               THEN Ok(lres.st, lres.st.arrays[var])
               ELSE Fail(lres.st, "KeyError", "lookup", {})

\* lines 41-52 of __getitem__: the store priority chain and the lazy load
resolve(S, var) ==
  IF var \in DOMAIN S.arrays THEN Ok(Event(S, "arrays", var), S.arrays[var])
  ELSE IF var \in DOMAIN S.mesh THEN Ok(Event(S, "mesh", var), S.mesh[var])
  ELSE IF var \in DOMAIN S.coords THEN Ok(Event(S, "coords", var), S.coords[var])
  ELSE LET lres == load_variable(S, var)
       IN IF lres.status # "ok" THEN lres
          ELSE IF lres.val = NoArr THEN Fail(lres.st, "KeyError", "not_found", {})
          ELSE IF var \in DOMAIN lres.st.arrays
               THEN Ok(lres.st, lres.st.arrays[var])
               ELSE Fail(lres.st, "KeyError", "lookup", {})

\* the error lists the loaded arrays only (checked against C4)
not_a_variable_arrays_only(S, var) ==
  Fail(S, "KeyError", "not_variable", DOMAIN S.arrays)

\* lines 63-64 of __getitem__: the KeyError that lists self.variables
not_a_variable(S, var) == Fail(S, "KeyError", "not_variable", variables(S))

getitem(S, var) ==
  IF var \in variables(S)
  THEN LET r == resolve(S, var)
       IN IF r.status # "ok" THEN r
          ELSE LET variable == isel_unused(S.unused, 1, r.val)
                   a == add_variable(r.st, var, variable, TRUE)
               IN IF var \in DOMAIN a.st.arrays
                  THEN LET array == a.st.arrays[var]
                       IN Ok(a.st, interp(a.st, array, array.dims))
                  ELSE Fail(a.st, "KeyError", "lookup", {})
  ELSE IF ~is_calculable(S, var)
       THEN not_a_variable(S, var)
       ELSE LET c == calculate(S, var)
            IN IF c.status # "ok" THEN c
               ELSE Ok(c.st, interp(c.st, c.val, c.val.dims))

\* arr.rename({d: d2}) of rename_dims' first loop
rename_dim(arr, key, d, d2) ==
  [arr EXCEPT !.id = NewId(key, @.ser + 1), !.dims = (@ \ {d}) \cup {d2}]

\* The coordinates in the order the coords dict iterates them. The dict keeps
\* insertion order: every file lists lev (stored as depth) before latitude,
\* and j is only ever inserted by rename_dims itself.
CoordOrder == <<"depth", "latitude", "j">>

\* rename_dims' second loop, from the i-th coordinate on. Writing
\* self._coords[name] for a name that is no key yet changes the size of the
\* dict under iteration: Python raises RuntimeError at the next step.
RECURSIVE rename_dims_coords(_, _, _, _)
rename_dims_coords(S, d, d2, i) ==
  IF i > Len(CoordOrder) THEN Ok(S, NoArr)
  ELSE LET co == CoordOrder[i]
       IN IF co \in DOMAIN S.coords /\ d \in S.coords[co].dims
          THEN LET newc == [S.coords[co] EXCEPT !.dims = (@ \ {d}) \cup {d2}]
                   S1 == [S EXCEPT !.coords = Put(@, d, newc)]
               IN IF d \notin DOMAIN S.coords
                  THEN Fail(S1, "RuntimeError", "dict_size", {})
                  ELSE rename_dims_coords(S1, d, d2, i + 1)
          ELSE rename_dims_coords(S, d, d2, i + 1)

\* rename_dims({d: d2}). The first loop rewrites the arrays in insertion
\* order and xarray raises ValueError at the first one without dimension d;
\* done is the set of arrays rewritten before that (all of them if none
\* lacks d).
rename_dims(S, d, d2, done) ==
  LET S1 == [S EXCEPT !.arrays =
               [v \in DOMAIN @ |->
                  IF v \in done THEN rename_dim(@[v], v, d, d2) ELSE @[v]]]
  IN IF \E v \in DOMAIN S.arrays : d \notin S.arrays[v].dims
     THEN Fail(S1, "ValueError", "rename", {})
     ELSE rename_dims_coords(S1, d, d2, 1)

\* the replace_dict loop of CMIPExperiment.load over the names todo
RECURSIVE replace_mesh(_, _, _)
replace_mesh(m, replace_dict, todo) ==
  IF todo = {} THEN m
  ELSE LET var == CHOOSE x \in todo : TRUE
           newvar == replace_dict[var]
           m1 == IF var \in DOMAIN m /\ newvar \in DOMAIN m
                 THEN Put(m, var, m[newvar]) ELSE m
       IN replace_mesh(m1, replace_dict, todo \ {var})

\* CMIPExperiment.load with a mesh file given
load(S, replace_dict) ==
  Ok([S EXCEPT !.drs = load_cmip6_output,
               !.mesh = replace_mesh(MeshFile, replace_dict, DOMAIN replace_dict)],
     NoArr)

\* --------------------------------------------------------------- actions

\* what the last call was, what it was given, and what the caller got back;
\* stores are the stores that held var when the call was made
Result(op, var, r) ==
  [op |-> op, var |-> var, status |-> r.status, err |-> r.err, val |-> r.val,
   msg |-> r.msg, stores |-> StoresOf(State(0), var), trace |-> r.st.trace]

Commit(op, var, r) ==
  /\ arrays' = r.st.arrays
  /\ mesh' = r.st.mesh
  /\ coords' = r.st.coords
  /\ dims' = r.st.dims
  /\ drs' = r.st.drs
  /\ unused_dims' = unused_dims
  /\ last' = Result(op, var, r)

\* a serial no reference the caller holds from the last call carries
FreshSer == IF last.val.id.nm = "tmp" THEN 1 - last.val.id.ser ELSE 0

Init ==
  /\ arrays = EmptyMap
  /\ mesh = EmptyMap
  /\ coords = EmptyMap
  /\ dims = [d \in {} |-> 0]
  /\ drs = {}
  /\ unused_dims = <<"member">>
  /\ last = Result("init", "", Ok(State(0), NoArr))

Load ==
  \E rd \in ReplaceDicts : Commit("load", "", load(State(FreshSer), rd))

Get ==
  \E v \in GetNames : Commit("get", v, getitem(State(FreshSer), v))

Set ==
  \E v \in SetNames, a \in {UserArray, UserNdarray} :
     Commit("set", v, setitem(State(FreshSer), v, a))

AddVariable ==
  \E v \in {"so"}, rd \in BOOLEAN :
     LET a == add_variable(State(FreshSer), v, UserArray, rd)
     IN Commit("add_variable", v, Ok(a.st, a.arr))

AddCoordinate ==
  \E v \in {"lev"} :
     LET a == add_coordinate(State(FreshSer), v, UserCoord, TRUE)
     IN Commit("add_coordinate", v, Ok(a.st, a.arr))

LoadVariable ==
  \E v \in LoadNames : Commit("load_variable", v, load_variable(State(FreshSer), v))

RenameDims ==
  \E p \in RenameArgs, done \in SUBSET DOMAIN arrays :
     /\ \A v \in done : p[1] \in arrays[v].dims
     /\ (\A v \in DOMAIN arrays : p[1] \in arrays[v].dims) => done = DOMAIN arrays
     /\ Commit("rename_dims", p[1], rename_dims(State(FreshSer), p[1], p[2], done))

\* load, item access, ingestion and lazy loading
Next ==
  \/ Load
  \/ Get
  \/ Set
  \/ AddVariable
  \/ AddCoordinate
  \/ LoadVariable

Spec == Init /\ [][Next]_vars

\* the same Experiment with rename_dims among its calls
NextRename ==
  \/ Load
  \/ LoadVariable
  \/ RenameDims

SpecRename == Init /\ [][NextRename]_vars

\* ---------------------------------------------------------------- claims

\* the Experiment before the step
Pre == State(0)

\* two arrays hold the same values on the same vertical levels
SameValues(a, b) == a.data = b.data /\ a.grid = b.grid

Events(tr) == {tr[i] : i \in 1..Len(tr)}

\* C1: for every name held by arrays, mesh or coords, a get succeeds, and a
\* second get right after it succeeds too and returns the identical array
\* object.
C1_GetTwiceIdentical ==
  /\ []((last.op = "get" /\ last.stores # {}) => last.status = "ok")
  /\ [][(last.op = "get" /\ last.stores # {} /\ last'.op = "get"
           /\ last'.var = last.var)
          => (last'.status = "ok" /\ last'.val.id = last.val.id)]_vars

\* C2: after set(v, arr) with arr a DataArray, the next get(v) returns an
\* array equal to arr, whatever the Experiment held before.
C2_SetThenGet ==
  [][(last.op = "set" /\ last.status = "ok" /\ last'.op = "get"
        /\ last'.var = last.var)
       => (last'.status = "ok" /\ SameValues(last'.val, UserArray))]_vars

\* C3: each name is held by at most one of arrays, mesh and coords.
C3_OneStorePerName ==
  \A n \in DOMAIN arrays \cup DOMAIN mesh \cup DOMAIN coords :
     Cardinality(StoresOf(Pre, n)) <= 1

RenameTarget(d) == (CHOOSE p \in RenameArgs : p[1] = d)[2]

\* C5: rename_dims({d: d2}) completes without error, every coordinate that
\* was indexed by d is indexed by d2 afterwards, and none remains indexed by d.
C5_RenameDimsCoords ==
  [][last'.op = "rename_dims"
       => LET d == last'.var
              d2 == RenameTarget(d)
          IN /\ last'.status = "ok"
             /\ \A c \in DOMAIN coords :
                   d \in coords[c].dims
                     => c \in DOMAIN coords' /\ d2 \in coords'[c].dims
             /\ \A c \in DOMAIN coords' : d \notin coords'[c].dims]_vars

\* the registered formula of v applied to the arrays that get returns for its
\* prerequisites
FormulaOnPrereqs(S, v) ==
  IF v = "bigthetao"
  THEN LET so == getitem(S, "so")
           pt == getitem(so.st, "thetao")
       IN Term("CT_from_pt", "", <<so.val.data, pt.val.data>>)
  ELSE LET d == getitem(S, "depth")
           so == getitem(d.st, "so")
           ct == getitem(so.st, "bigthetao")
       IN Term("rho", "", <<so.val.data, ct.val.data, d.val.data>>)

\* whether get reconciles array a with the canonical vertical coordinate of
\* the Experiment whose coords are cs
Reconciled(a, cs) ==
  "depth" \in a.dims /\ "depth" \in DOMAIN cs /\ a.grid # cs["depth"].grid

C7_LoadVariableKeeps ==
  [][(last'.op = "load_variable" /\ last'.status = "ok")
       => /\ \A d \in DOMAIN dims : d \in DOMAIN dims' /\ dims'[d] = dims[d]
          /\ \A c \in DOMAIN coords : c \in DOMAIN coords' /\ coords'[c] = coords[c]
          /\ Canon(last'.var) \in DOMAIN arrays']_vars

\* C8: for a name held by a store, the array get returns has none of the
\* unused dimensions, nor has the array cached under its canonical name.
C8_UnusedDimsCollapsed ==
  (last.op = "get" /\ last.stores # {} /\ last.status = "ok")
    => \A i \in 1..Len(unused_dims) :
          /\ unused_dims[i] \notin last.val.dims
          /\ unused_dims[i] \notin arrays[Canon(last.var)].dims

C10_WriteOnce ==
  [][\A n \in DOMAIN arrays : n \in DOMAIN arrays' /\ arrays'[n] = arrays[n]]_vars

C10_Witness ==
  /\ last.op = "add_variable"
  /\ "arrays" \in last.stores
  /\ last.val.id = TmpId(0)
  /\ arrays["so"].data = Term("file", "so", <<>>)

====
